---- MODULE Spec2Model ----
(***************************************************************************)
(* MicroPython WorkBench: the passive serial monitor (SerialMonitor in     *)
(* src/src/syncView.ts), the board directory listing (listDirPyRaw in      *)
(* src/src/pyraw.ts), the interpreter lookup both of them await            *)
(* (PythonInterpreterManager.getPythonPath in src/src/pythonInterpreter.ts)*)
(* and the toggle label of the sync view (SyncTree.getActionNodes in       *)
(* src/src/syncView.ts).                                                   *)
(*                                                                         *)
(* Every `await` of the source is a point where the JavaScript event loop  *)
(* may run another callback, so every async function is cut into one       *)
(* action per stretch of code between two awaits.  The invocations of an   *)
(* async function that are in flight form a bag of their local variables.  *)
(*                                                                         *)
(* A port identifier is a sequence of one-character strings, so that the   *)
(* stripping of its prefix is computed; an interpreter path is a sequence  *)
(* of blanks and non-blank pieces, so that trim() is computed; the output  *)
(* of the listing tool is a sequence of JSON tokens, so that it is parsed. *)
(***************************************************************************)
EXTENDS Integers, Sequences, FiniteSets, Bags, TLC

\* ------------------------------------------------------------------ bounds
\* Number of tick() invocations that may be in flight together.
MaxTicks == 2
\* Number of suspendDuring() invocations that may be in flight together.
MaxOps == 2
\* Number of tick() invocations in flight together with a listing (ListSpec).
MaxListTicks == 1
\* How many times the clock may advance by ClockStep.
MaxClock == 2
\* Milliseconds by which one step of the clock advances Date.now().
ClockStep == 15000
\* Date.now() when the extension is loaded, in milliseconds.
StartTime == 600000
\* Milliseconds of one long pause (NotifySpec): with one ClockStep it makes
\* NOTIFICATION_COOLDOWN exactly.
LongStep == 285000

\* ------------------------------------------------------- program constants
CACHE_DURATION == 30000
NOTIFICATION_COOLDOWN == 300000

\* ------------------------------------------------------------------ strings
Empty == << >>
Auto == <<"a", "u", "t", "o">>
SerialSlashSlash == <<"s", "e", "r", "i", "a", "l", ":", "/", "/">>
SerialSlash == <<"s", "e", "r", "i", "a", "l", ":", "/">>
\* A configuration key that holds no value (get() then returns its default).
Undefined == <<"undefined">>
PortA == <<"C", "1">>
PortB == <<"C", "2">>

\* s.replace(/^p/, ""): drop the literal prefix p when s starts with it.
ReplacePrefix(s, p) ==
  IF Len(s) >= Len(p) /\ SubSeq(s, 1, Len(p)) = p
    THEN SubSeq(s, Len(p) + 1, Len(s))
    ELSE s

\* .replace(/^serial:\/\//, "").replace(/^serial:\//, "")
DeviceOf(connect) == ReplacePrefix(ReplacePrefix(connect, SerialSlashSlash), SerialSlash)

\* cfg.get<string>(key, dflt): the default when the key holds no value.
ConfigGet(value, dflt) == IF value = Undefined THEN dflt ELSE value

\* JavaScript `a || b` on strings: the empty string is falsy.
OrElse(a, b) == IF a = Empty THEN b ELSE a

\* ------------------------------------------------------- configuration
\* Values the setting microPythonWorkBench.connect takes.
ConnectValues == {Undefined, Empty, Auto, SerialSlashSlash \o PortA, SerialSlash \o PortB}

\* ------------------------------------------------------- interpreter paths
\* An interpreter path is a sequence of pieces: a piece is one blank or a run
\* of non-blank characters.
NoPath == <<"null">>
Blank == " "
Python3 == <<"python3">>
Python == <<"python">>
VenvPy == <<"venv/bin/python">>
OwnPy == <<"opt/mpy/python">>

\* Truthiness of a string | null | undefined value.
Truthy(p) == p # NoPath /\ p # Undefined /\ p # Empty

RECURSIVE TrimStart(_)
TrimStart(p) == IF p # Empty /\ Head(p) = Blank THEN TrimStart(Tail(p)) ELSE p

RECURSIVE TrimEnd(_)
TrimEnd(p) ==
  IF p # Empty /\ p[Len(p)] = Blank THEN TrimEnd(SubSeq(p, 1, Len(p) - 1)) ELSE p

\* String.prototype.trim()
Trim(p) == TrimEnd(TrimStart(p))

\* ------------------------------------------------------------------- state
VARIABLES
  connect,            \* setting microPythonWorkBench.connect
  mpyPath,            \* setting microPythonWorkBench.pythonPath
  dfltPath,           \* setting python.defaultInterpreterPath
  apiPath,            \* the interpreter the Python extension's API reports
  installed,          \* the paths validatePythonPath accepts at the moment
  missing,            \* the paths validatePythonPath reports missingMpremote for
  now,                \* Date.now()
  cachedInterpreter,  \* PythonInterpreterManager.cachedInterpreter
  lastCacheTime,      \* PythonInterpreterManager.lastCacheTime
  cachedUnder,        \* the settings the lookup that filled the cache had read
  lastMpremoteNotification, \* PythonInterpreterManager.lastMpremoteNotification
  warnings,           \* Date.now() of the last two 'mpremote missing' warnings shown
  py,                 \* the getPythonPath() invocation in flight: [pc, pythonPath, read]
  pyResult,           \* what the getPythonPath() that returned last resolved to
  chk,                \* the checkMpremoteAvailability() in flight: [pc, pythonPath, read]
  chkResult,          \* what the checkMpremoteAvailability() that returned last resolved to
  running,            \* SerialMonitor.running
  busy,               \* SerialMonitor.busy
  timer,              \* SerialMonitor.timer: the handle kept (armed or stale)
  pending,            \* the setTimeout handles that are armed and not yet fired
  out,                \* SerialMonitor.out: the output channel exists
  ticks,              \* bag of the tick() invocations in flight: [pc, device, pythonPath]
  ops,                \* bag of the suspendDuring() invocations in flight: [wasRunning]
  lastEnd,            \* how the suspendDuring() that returned last ended
  list,               \* the listDirPyRaw() invocation in flight: [pc, device, pythonPath]
  listResult,         \* how the listDirPyRaw() that returned last ended
  workspaceFolder,    \* vscode.workspace.workspaceFolders has a first folder
  configFile,         \* the text of .mpy-workbench/config.json
  autoSyncOnSave,     \* setting microPythonWorkBench.autoSyncOnSave
  labels              \* the toggle labels of the last two getActionNodes()

cfgVars == <<connect, mpyPath, dfltPath>>
envVars == <<apiPath, installed, missing>>
pyVars == <<now, cachedInterpreter, lastCacheTime, cachedUnder, lastMpremoteNotification, warnings>>
callVars == <<py, pyResult, chk, chkResult>>
treeVars == <<workspaceFolder, configFile, autoSyncOnSave, labels>>
monVars == <<running, busy, timer, pending, out>>
tickVars == <<ticks>>
opVars == <<ops, lastEnd>>
listVars == <<list, listResult>>
vars == <<cfgVars, envVars, pyVars, callVars, monVars, tickVars, opVars, listVars, treeVars>>

NoTimer == 0
NoEnd == [wasRunning |-> FALSE, fn |-> "none", result |-> "none"]
Outcomes == {"resolved", "rejected"}
NoList == [pc |-> "idle", device |-> Empty, pythonPath |-> NoPath]
NoResult == [kind |-> "none", value |-> Empty]
NoSettings == <<NoPath, NoPath>>
NoCall == [pc |-> "idle", pythonPath |-> NoPath, read |-> NoSettings]
NoReturn == [path |-> NoPath, cached |-> FALSE]
NoAnswer == "none"
NoFile == <<"ENOENT">>

Init ==
  /\ connect \in ConnectValues
  /\ mpyPath = Undefined
  /\ dfltPath = Undefined
  /\ apiPath = NoPath
  /\ installed = {Python3}
  /\ missing = {}
  /\ now = StartTime
  /\ cachedInterpreter = NoPath
  /\ lastCacheTime = 0
  /\ cachedUnder = NoSettings
  /\ lastMpremoteNotification = 0
  /\ warnings = << >>
  /\ py = NoCall
  /\ pyResult = NoReturn
  /\ chk = NoCall
  /\ chkResult = NoAnswer
  /\ running = FALSE
  /\ busy = FALSE
  /\ timer = NoTimer
  /\ pending = {}
  /\ out = FALSE
  /\ ticks = EmptyBag
  /\ ops = EmptyBag
  /\ lastEnd = NoEnd
  /\ list = NoList
  /\ listResult = NoResult
  /\ workspaceFolder = TRUE
  /\ configFile = NoFile
  /\ autoSyncOnSave = Undefined
  /\ labels = << >>

\* The state after construction when no setting has been set.
UnsetInit == Init /\ connect = Undefined

\* One more / one fewer invocation x in the bag b.
Put(b, x) == b (+) SetToBag({x})
Take(b, x) == b (-) SetToBag({x})

\* ------------------------------------------- PythonInterpreterManager
\* The cache test with the age of exactly CACHE_DURATION still accepted.
CacheHitInclusive == Truthy(cachedInterpreter) /\ (now - lastCacheTime) <= CACHE_DURATION

\* The test of getPythonPath(): a cached value younger than CACHE_DURATION.
CacheHit == Truthy(cachedInterpreter) /\ (now - lastCacheTime) < CACHE_DURATION

\* getPythonFromConfiguration(): microPythonWorkBench.pythonPath (mpy), then
\* python.defaultInterpreterPath (dflt), then python.pythonPath (old).
GetPythonFromConfiguration(mpy, dflt, old) ==
  IF Truthy(mpy) /\ Truthy(Trim(mpy)) THEN Trim(mpy)
  ELSE IF Truthy(dflt) /\ Truthy(Trim(dflt)) THEN Trim(dflt)
  ELSE IF Truthy(old) /\ Truthy(Trim(old)) THEN Trim(old)
  ELSE NoPath

\* getFallbackPythonPaths() where process.platform is not win32.
FallbackPythonPaths ==
  << Python3, Python, <<"/usr/bin/python3">>, <<"/usr/local/bin/python3">>,
     <<"/opt/homebrew/bin/python3">>, <<"/usr/bin/python">>, <<"/usr/local/bin/python">> >>

\* Mutant of getPythonPath(): the candidates are tried from the last to the
\* first.
DiscoverBackwards(api, cfg, valid) ==
  LET cands == (IF Truthy(api) THEN <<api>> ELSE << >>)
                 \o (IF Truthy(cfg) THEN <<cfg>> ELSE << >>)
                 \o FallbackPythonPaths
      ok == {i \in DOMAIN cands : cands[i] \in valid}
  IN IF ok = {} THEN Python3
     ELSE cands[CHOOSE i \in ok : \A j \in ok : i >= j]

\* getPythonPath() past the cache test: the first candidate that validates, of
\* the extension API's (api), the configuration's (cfg) and the fallbacks;
\* 'python3' when none does.  valid: the paths validatePythonPath accepts.
Discover(api, cfg, valid) ==
  LET cands == (IF Truthy(api) THEN <<api>> ELSE << >>)
                 \o (IF Truthy(cfg) THEN <<cfg>> ELSE << >>)
                 \o FallbackPythonPaths
      ok == {i \in DOMAIN cands : cands[i] \in valid}
  IN IF ok = {} THEN Python3
     ELSE cands[CHOOSE i \in ok : \A j \in ok : i <= j]

\* The values the settings, the extension API and the set of validating
\* paths range over, and what a discovery may return over all of them.
ApiPaths == {NoPath, VenvPy}
MpyPaths == {Undefined, <<Blank>>, <<Blank>> \o OwnPy}
DefaultPaths == {Undefined, VenvPy}
Installed == {VenvPy, OwnPy, Python3, Python}
\* The paths whose validation may report mpremote as missing, and the sets of
\* validating paths, of NotifySpec.
Missing == {VenvPy, Python3}
NotifyInstalled == {{}, {Python3}, {VenvPy, Python3}}

DiscoveryResults ==
  { Discover(api, GetPythonFromConfiguration(mpy, dflt, Undefined), valid) :
      <<api, mpy, dflt, valid>> \in
        ApiPaths \X MpyPaths \X DefaultPaths \X (SUBSET Installed) }

\* The last two elements of a sequence.
LastTwo(q) == IF Len(q) <= 2 THEN q ELSE SubSeq(q, Len(q) - 1, Len(q))

\* Mutant of showMpremoteInstallationNotification(): no cooldown test.
ShowMpremoteInstallationNotificationAlways(s, t) ==
  [last |-> t, warnings |-> LastTwo(Append(s.warnings, t))]

\* showMpremoteInstallationNotification() called at Date.now() = t, on
\* s = [last: lastMpremoteNotification, warnings]: within the cooldown it
\* returns, else it notes the time and shows the warning.
ShowMpremoteInstallationNotification(s, t) ==
  IF t - s.last < NOTIFICATION_COOLDOWN
    THEN s
    ELSE [last |-> t, warnings |-> LastTwo(Append(s.warnings, t))]

\* How many candidates getPythonPath() runs showMpremoteInstallationNotification
\* for: those tried before the first that validates (all, when none does)
\* whose validation reports mpremote as missing (miss).
Refused(api, cfg, valid, miss) ==
  LET cands == (IF Truthy(api) THEN <<api>> ELSE << >>)
                 \o (IF Truthy(cfg) THEN <<cfg>> ELSE << >>)
                 \o FallbackPythonPaths
      ok == {i \in DOMAIN cands : cands[i] \in valid}
      tried == IF ok = {} THEN Len(cands)
               ELSE (CHOOSE i \in ok : \A j \in ok : i <= j) - 1
  IN Cardinality({i \in 1..tried : cands[i] \in miss})

\* n calls of showMpremoteInstallationNotification() in a row, all at t.
RECURSIVE NotifyTimes(_, _, _)
NotifyTimes(n, s, t) ==
  IF n = 0 THEN s ELSE NotifyTimes(n - 1, ShowMpremoteInstallationNotification(s, t), t)

\* The effect of n such calls made now.
Warn(n) ==
  LET s == NotifyTimes(n, [last |-> lastMpremoteNotification, warnings |-> warnings], now)
  IN /\ lastMpremoteNotification' = s.last
     /\ warnings' = s.warnings

\* getPythonPath() up to its first await: the position its caller is left in
\* and, on a cache hit, the value it resolves to.
GetPythonPathCall ==
  IF CacheHit THEN [pc |-> "cached", py |-> cachedInterpreter]
              ELSE [pc |-> "discover", py |-> NoPath]

\* cacheResult(p)
CacheResult(p) ==
  /\ cachedInterpreter' = p
  /\ lastCacheTime' = now
  /\ UNCHANGED now

\* The interpreter settings as they are.
Configuration == <<mpyPath, dfltPath>>

\* getPythonFromConfiguration() now; python.pythonPath, deprecated, is not set.
ConfiguredPython == GetPythonFromConfiguration(mpyPath, dfltPath, Undefined)

\* getPythonPath() called directly, up to its first await; on a cache hit it
\* returns at once.
GetPythonPath ==
  /\ py.pc = "idle"
  /\ LET g == GetPythonPathCall
     IN IF g.pc = "cached"
          THEN /\ pyResult' = [path |-> g.py, cached |-> TRUE]
               /\ UNCHANGED py
          ELSE /\ py' = [pc |-> "api", pythonPath |-> NoPath, read |-> NoSettings]
               /\ pyResult' = NoReturn
  /\ UNCHANGED <<chk, chkResult>>
  /\ UNCHANGED <<cfgVars, envVars, pyVars, monVars, tickVars, opVars, listVars, treeVars>>

\* Method 1 settles: the path of the extension API validates and is cached
\* and returned, or the settings are read for Method 2.
GetPythonPathFromApi ==
  /\ py.pc = "api"
  /\ IF Truthy(apiPath) /\ apiPath \in installed
       THEN /\ CacheResult(apiPath)
            /\ cachedUnder' = Configuration
            /\ Warn(0)
            /\ pyResult' = [path |-> apiPath, cached |-> FALSE]
            /\ py' = NoCall
       ELSE /\ py' = [pc |-> "cfg", pythonPath |-> ConfiguredPython, read |-> Configuration]
            /\ Warn(IF Truthy(apiPath) /\ apiPath \in missing THEN 1 ELSE 0)
            /\ UNCHANGED <<now, cachedInterpreter, lastCacheTime, cachedUnder, pyResult>>
  /\ UNCHANGED <<chk, chkResult>>
  /\ UNCHANGED <<cfgVars, envVars, monVars, tickVars, opVars, listVars, treeVars>>

\* Methods 2 and 3 settle: the configured path, else the first fallback that
\* validates, else 'python3', is cached and returned.
GetPythonPathFromRest ==
  /\ py.pc = "cfg"
  /\ LET p == Discover(NoPath, py.pythonPath, installed)
     IN /\ CacheResult(p)
        /\ cachedUnder' = py.read
        /\ Warn(Refused(NoPath, py.pythonPath, installed, missing))
        /\ pyResult' = [path |-> p, cached |-> FALSE]
        /\ py' = NoCall
  /\ UNCHANGED <<chk, chkResult>>
  /\ UNCHANGED <<cfgVars, envVars, monVars, tickVars, opVars, listVars, treeVars>>

\* clearPythonCache(), exported to the rest of the extension.
ClearPythonCache ==
  /\ cachedInterpreter' = NoPath
  /\ lastCacheTime' = 0
  /\ cachedUnder' = NoSettings
  /\ UNCHANGED <<now, lastMpremoteNotification, warnings, cfgVars, envVars, callVars, monVars, tickVars, opVars, listVars, treeVars>>

\* The user changes the setting microPythonWorkBench.pythonPath.
SetPythonPath(v) ==
  /\ v # mpyPath
  /\ mpyPath' = v
  /\ UNCHANGED <<connect, dfltPath, envVars, pyVars, callVars, monVars, tickVars, opVars, listVars,
                 treeVars>>

\* The user changes the setting python.defaultInterpreterPath.
SetDefaultInterpreterPath(v) ==
  /\ v # dfltPath
  /\ dfltPath' = v
  /\ UNCHANGED <<connect, mpyPath, envVars, pyVars, callVars, monVars, tickVars, opVars, listVars,
                 treeVars>>

\* The user selects an interpreter in the Python extension, or none.
SelectInterpreter(v) ==
  /\ v # apiPath
  /\ apiPath' = v
  /\ UNCHANGED <<installed, missing, cfgVars, pyVars, callVars, monVars, tickVars, opVars, listVars,
                 treeVars>>

\* An interpreter starts or stops validating (installed, removed, broken).
SetInstalled(ps) ==
  /\ ps # installed
  /\ installed' = ps
  /\ UNCHANGED <<apiPath, missing, cfgVars, pyVars, callVars, monVars, tickVars, opVars, listVars, treeVars>>

\* The mpremote command appears or disappears for the validation of paths.
SetMissing(ps) ==
  /\ ps # missing
  /\ missing' = ps
  /\ UNCHANGED <<apiPath, installed, cfgVars, pyVars, callVars, monVars, tickVars, opVars,
                 listVars, treeVars>>

\* checkMpremoteAvailability() up to its first await: getPythonPath() is
\* called, and answers from the cache or starts a discovery.
CheckMpremoteAvailability ==
  /\ chk.pc = "idle"
  /\ LET g == GetPythonPathCall
     IN chk' = IF g.pc = "cached"
                 THEN [pc |-> "validate", pythonPath |-> g.py, read |-> NoSettings]
                 ELSE [pc |-> "api", pythonPath |-> NoPath, read |-> NoSettings]
  /\ chkResult' = NoAnswer
  /\ UNCHANGED <<py, pyResult>>
  /\ UNCHANGED <<cfgVars, envVars, pyVars, monVars, tickVars, opVars, listVars, treeVars>>

\* Method 1 settles inside checkMpremoteAvailability().
CheckMpremoteAvailabilityFromApi ==
  /\ chk.pc = "api"
  /\ IF Truthy(apiPath) /\ apiPath \in installed
       THEN /\ CacheResult(apiPath)
            /\ cachedUnder' = Configuration
            /\ Warn(0)
            /\ chk' = [pc |-> "validate", pythonPath |-> apiPath, read |-> NoSettings]
       ELSE /\ chk' = [pc |-> "cfg", pythonPath |-> ConfiguredPython, read |-> Configuration]
            /\ Warn(IF Truthy(apiPath) /\ apiPath \in missing THEN 1 ELSE 0)
            /\ UNCHANGED <<now, cachedInterpreter, lastCacheTime, cachedUnder>>
  /\ UNCHANGED <<py, pyResult, chkResult>>
  /\ UNCHANGED <<cfgVars, envVars, monVars, tickVars, opVars, listVars, treeVars>>

\* Methods 2 and 3 settle inside checkMpremoteAvailability().
CheckMpremoteAvailabilityFromRest ==
  /\ chk.pc = "cfg"
  /\ LET p == Discover(NoPath, chk.pythonPath, installed)
     IN /\ CacheResult(p)
        /\ cachedUnder' = chk.read
        /\ Warn(Refused(NoPath, chk.pythonPath, installed, missing))
        /\ chk' = [pc |-> "validate", pythonPath |-> p, read |-> NoSettings]
  /\ UNCHANGED <<py, pyResult, chkResult>>
  /\ UNCHANGED <<cfgVars, envVars, monVars, tickVars, opVars, listVars, treeVars>>

\* checkMpremoteAvailability() validates the path it got and returns.
CheckMpremoteAvailabilityValidate ==
  /\ chk.pc = "validate"
  /\ IF chk.pythonPath \notin installed /\ chk.pythonPath \in missing
       THEN /\ Warn(1)
            /\ chkResult' = "false"
       ELSE /\ Warn(0)
            /\ chkResult' = IF chk.pythonPath \in installed THEN "true" ELSE "false"
  /\ chk' = NoCall
  /\ UNCHANGED <<now, cachedInterpreter, lastCacheTime, cachedUnder, py, pyResult>>
  /\ UNCHANGED <<cfgVars, envVars, monVars, tickVars, opVars, listVars, treeVars>>

\* A long pause: the extension sits idle for LongStep milliseconds, once.
Elapse ==
  /\ now <= StartTime + MaxClock * ClockStep
  /\ now' = now + LongStep
  /\ UNCHANGED <<cachedInterpreter, lastCacheTime, cachedUnder, lastMpremoteNotification, warnings>>
  /\ UNCHANGED <<cfgVars, envVars, callVars, treeVars, monVars, tickVars, opVars, listVars>>

\* Time passes.
Advance ==
  /\ now < StartTime + MaxClock * ClockStep
  /\ now' = now + ClockStep
  /\ UNCHANGED <<cachedInterpreter, lastCacheTime, cachedUnder, lastMpremoteNotification, warnings>>
  /\ UNCHANGED <<cfgVars, envVars, callVars, treeVars, monVars, tickVars, opVars, listVars>>

\* The user changes the setting microPythonWorkBench.connect.
SetConnect(c) ==
  /\ c # connect
  /\ connect' = c
  /\ UNCHANGED <<mpyPath, dfltPath, envVars, callVars, treeVars, pyVars, monVars, tickVars, opVars,
                 listVars>>

\* --------------------------------------------------------- SerialMonitor
\* setTimeout returns a new handle: one that is not armed at the moment.
NewTimer(armed) == CHOOSE i \in 1..(Cardinality(armed) + 1) : i \notin armed

\* Mutant of schedule(): the timer kept is not cleared before a new one is set.
ScheduleNoClear(run, bsy, tm, armed) ==
  IF ~run \/ bsy
    THEN [timer |-> tm, pending |-> armed]
    ELSE LET id == NewTimer(armed)
         IN [timer |-> id, pending |-> armed \cup {id}]

\* schedule(), called when running = run and busy = bsy: the handle kept and
\* the armed handles afterwards.
Schedule(run, bsy, tm, armed) ==
  IF ~run \/ bsy
    THEN [timer |-> tm, pending |-> armed]
    ELSE LET cleared == IF tm # NoTimer THEN armed \ {tm} ELSE armed
             id == NewTimer(cleared)
         IN [timer |-> id, pending |-> cleared \cup {id}]

\* start()
Start ==
  /\ IF running
       THEN UNCHANGED monVars
       ELSE LET s == Schedule(TRUE, busy, timer, pending)
            IN /\ out' = TRUE
               /\ running' = TRUE
               /\ timer' = s.timer
               /\ pending' = s.pending
               /\ UNCHANGED busy
  /\ UNCHANGED <<cfgVars, envVars, callVars, treeVars, pyVars, tickVars, opVars, listVars>>

\* Mutant of stop(): the timer is not cleared.
StopKeepsTimer ==
  /\ running' = FALSE
  /\ UNCHANGED <<timer, pending>>
  /\ UNCHANGED <<busy, out, cfgVars, envVars, callVars, treeVars, pyVars, tickVars, opVars,
                 listVars>>

\* stop()
Stop ==
  /\ running' = FALSE
  /\ IF timer # NoTimer
       THEN /\ pending' = pending \ {timer}
            /\ timer' = NoTimer
       ELSE UNCHANGED <<timer, pending>>
  /\ UNCHANGED <<busy, out, cfgVars, envVars, callVars, treeVars, pyVars, tickVars, opVars,
                 listVars>>

\* suspendDuring(fn) up to `await fn()`: fn has been called and is executing.
SuspendDuringBegin ==
  /\ BagCardinality(ops) < MaxOps
  /\ ops' = Put(ops, [wasRunning |-> running])
  /\ busy' = TRUE
  /\ UNCHANGED <<running, timer, pending, out, lastEnd, cfgVars, envVars, callVars, treeVars,
                 pyVars, tickVars, listVars>>

\* Mutant of suspendDuring(): schedule() is called whether or not the monitor
\* was running before.
SuspendDuringEndAlwaysResumes(o, r) ==
  /\ BagIn(o, ops)
  /\ LET s == Schedule(running, FALSE, timer, pending)
     IN /\ busy' = FALSE
        /\ timer' = s.timer
        /\ pending' = s.pending
  /\ lastEnd' = [wasRunning |-> o.wasRunning, fn |-> r, result |-> r]
  /\ ops' = Take(ops, o)
  /\ UNCHANGED <<running, out, cfgVars, envVars, callVars, treeVars, pyVars, tickVars, listVars>>

\* Mutant of suspendDuring(): the release follows the await instead of being
\* in a finally block, so a rejection skips it.
SuspendDuringEndNoFinally(o, r) ==
  /\ BagIn(o, ops)
  /\ LET s == IF o.wasRunning /\ r = "resolved"
                THEN Schedule(running, FALSE, timer, pending)
                ELSE [timer |-> timer, pending |-> pending]
     IN /\ busy' = (IF r = "resolved" THEN FALSE ELSE busy)
        /\ timer' = s.timer
        /\ pending' = s.pending
  /\ lastEnd' = [wasRunning |-> o.wasRunning, fn |-> r, result |-> r]
  /\ ops' = Take(ops, o)
  /\ UNCHANGED <<running, out, cfgVars, envVars, callVars, treeVars, pyVars, tickVars, listVars>>

\* suspendDuring(fn) from the settling of fn's promise (as r) to the return:
\* the finally block, then the outcome of fn handed to the caller.
SuspendDuringEnd(o, r) ==
  /\ BagIn(o, ops)
  /\ LET s == IF o.wasRunning
                THEN Schedule(running, FALSE, timer, pending)
                ELSE [timer |-> timer, pending |-> pending]
     IN /\ busy' = FALSE
        /\ timer' = s.timer
        /\ pending' = s.pending
  /\ lastEnd' = [wasRunning |-> o.wasRunning, fn |-> r, result |-> r]
  /\ ops' = Take(ops, o)
  /\ UNCHANGED <<running, out, cfgVars, envVars, callVars, treeVars, pyVars, tickVars, listVars>>

\* An armed timer fires and tick() runs up to `await getPythonPath()`.
TimerFire(id) ==
  /\ id \in pending
  /\ pending' = pending \ {id}
  /\ IF ~running \/ busy
       THEN UNCHANGED ticks
       ELSE /\ BagCardinality(ticks) < MaxTicks
            /\ LET g == GetPythonPathCall
                   device == DeviceOf(OrElse(ConfigGet(connect, Auto), Empty))
               IN ticks' = Put(ticks, [pc |-> g.pc, device |-> device, pythonPath |-> g.py])
  /\ UNCHANGED <<running, busy, timer, out, cfgVars, envVars, callVars, treeVars, pyVars,
                 opVars, listVars>>

\* Mutant of tick(): the port is read from the configuration after
\* `await getPythonPath()` instead of before it.
TickSpawnRereads(t) ==
  /\ BagIn(t, ticks)
  /\ t.pc \in {"cached", "discover"}
  /\ LET device == DeviceOf(OrElse(ConfigGet(connect, Auto), Empty))
     IN IF t.pc = "cached"
          THEN /\ ticks' = Put(Take(ticks, t), [t EXCEPT !.pc = "proc", !.device = device])
               /\ UNCHANGED pyVars
          ELSE LET p == Discover(apiPath, ConfiguredPython, installed)
               IN /\ CacheResult(p)
                  /\ cachedUnder' = Configuration
                  /\ Warn(Refused(apiPath, ConfiguredPython, installed, missing))
                  /\ ticks' = Put(Take(ticks, t),
                                 [t EXCEPT !.pc = "proc", !.device = device, !.pythonPath = p])
  /\ UNCHANGED <<cfgVars, envVars, callVars, treeVars, monVars, opVars, listVars>>

\* getPythonPath() resolves and tick() spawns miniterm on the device.
TickSpawn(t) ==
  /\ BagIn(t, ticks)
  /\ t.pc \in {"cached", "discover"}
  /\ IF t.pc = "cached"
       THEN /\ ticks' = Put(Take(ticks, t), [t EXCEPT !.pc = "proc"])
            /\ UNCHANGED pyVars
       ELSE LET p == Discover(apiPath, ConfiguredPython, installed)
            IN /\ CacheResult(p)
               /\ cachedUnder' = Configuration
               /\ Warn(Refused(apiPath, ConfiguredPython, installed, missing))
               /\ ticks' = Put(Take(ticks, t), [t EXCEPT !.pc = "proc", !.pythonPath = p])
  /\ UNCHANGED <<cfgVars, envVars, callVars, treeVars, monVars, opVars, listVars>>

\* The miniterm process closes (killed when the read window ends, or exited):
\* tick() runs from the `close` event to its end.
TickClose(t) ==
  /\ BagIn(t, ticks)
  /\ t.pc = "proc"
  /\ LET s == Schedule(running, busy, timer, pending)
     IN /\ timer' = s.timer
        /\ pending' = s.pending
  /\ ticks' = Take(ticks, t)
  /\ UNCHANGED <<running, busy, out, cfgVars, envVars, callVars, treeVars, pyVars, opVars,
                 listVars>>

\* Mutant of the kill timer: it is not set, nothing ends a miniterm that
\* keeps the port open.
TickKillNever(t) ==
  /\ BagIn(t, ticks)
  /\ FALSE
  /\ UNCHANGED vars

\* The kill timer of tick() expires after the read window: miniterm is
\* still running, it gets SIGKILL, its close event resumes tick().
TickKill(t) == TickClose(t)

\* ------------------------------------------------------- listDirPyRaw
\* The text of a tool's output is a sequence of JSON tokens: "[", "]", ",",
\* "e" (an object, such as a directory entry), "1" (a number), and "x" for
\* text that is no JSON at all.
JsonValues == {"e", "1"}
EmptyArrayText == <<"[", "]">>

\* JSON.parse(s) for a flat document: a value, or an array of values.
\* ok: no SyntaxError; array: Array.isArray of the result; value: its elements.
JsonParse(s) ==
  LET n == Len(s)
      inner == SubSeq(s, 2, n - 1)
      m == Len(inner)
      flat == \/ m = 0
              \/ /\ m % 2 = 1
                 /\ \A i \in 1..m : IF i % 2 = 1 THEN inner[i] \in JsonValues
                                                  ELSE inner[i] = ","
  IN IF n = 1 /\ s[1] \in JsonValues
       THEN [ok |-> TRUE, array |-> FALSE, value |-> s]
     ELSE IF n >= 2 /\ s[1] = "[" /\ s[n] = "]" /\ flat
       THEN [ok |-> TRUE, array |-> TRUE,
             value |-> [k \in 1..((m + 1) \div 2) |-> inner[2 * k - 1]]]
     ELSE [ok |-> FALSE, array |-> FALSE, value |-> Empty]

NoErr == <<"null">>
NoPortError == <<"No fixed serial port selected">>
ExecError == <<"Command failed">>
StderrText == <<"could not open port">>

\* What the listing tool may leave behind when it ends.
ToolErrs == {NoErr, ExecError}
ToolStdouts == {Empty, <<"x">>, <<"e">>, EmptyArrayText, <<"[", "e", ",", "1", "]">>}
ToolStderrs == {Empty, StderrText}

\* Mutant of listDirPyRaw(): the interpreter is looked up before the port is
\* tested.
ListDirPyRawCallLookupFirst ==
  /\ list.pc = "idle"
  /\ LET c == OrElse(ConfigGet(connect, Auto), Auto)
         g == GetPythonPathCall
     IN /\ list' = [pc |-> g.pc, device |-> DeviceOf(c), pythonPath |-> g.py]
        /\ listResult' = NoResult
  /\ UNCHANGED <<cfgVars, envVars, callVars, treeVars, pyVars, monVars, tickVars, opVars>>

\* listDirPyRaw(dirPath) up to `await getPythonPath()`, or to its throw.
ListDirPyRawCall ==
  /\ list.pc = "idle"
  /\ LET c == OrElse(ConfigGet(connect, Auto), Auto)
         g == GetPythonPathCall
     IN IF c = Empty \/ c = Auto
          THEN /\ listResult' = [kind |-> "rejected", value |-> NoPortError]
               /\ UNCHANGED list
          ELSE /\ list' = [pc |-> g.pc, device |-> DeviceOf(c), pythonPath |-> g.py]
               /\ listResult' = NoResult
  /\ UNCHANGED <<cfgVars, envVars, callVars, treeVars, pyVars, monVars, tickVars, opVars>>

\* getPythonPath() resolves and listDirPyRaw starts the listing tool.
ListDirPyRawExec ==
  /\ list.pc \in {"cached", "discover"}
  /\ IF list.pc = "cached"
       THEN /\ list' = [list EXCEPT !.pc = "exec"]
            /\ UNCHANGED pyVars
       ELSE LET p == Discover(apiPath, ConfiguredPython, installed)
            IN /\ CacheResult(p)
               /\ cachedUnder' = Configuration
               /\ Warn(Refused(apiPath, ConfiguredPython, installed, missing))
               /\ list' = [list EXCEPT !.pc = "exec", !.pythonPath = p]
  /\ UNCHANGED <<listResult, cfgVars, envVars, callVars, treeVars, monVars, tickVars, opVars>>

\* Mutant of the execFile callback: without the try/catch around JSON.parse,
\* output that is not JSON rejects the call.
ListDirPyRawExitNoCatch(err, stdout, stderr) ==
  /\ list.pc = "exec"
  /\ list' = NoList
  /\ LET data == JsonParse(OrElse(stdout, EmptyArrayText))
     IN listResult' =
          IF err # NoErr
            THEN [kind |-> "rejected", value |-> OrElse(stderr, err)]
          ELSE IF ~data.ok
            THEN [kind |-> "rejected", value |-> <<"SyntaxError">>]
          ELSE IF data.array
            THEN [kind |-> "resolved", value |-> data.value]
          ELSE [kind |-> "resolved", value |-> Empty]
  /\ UNCHANGED <<cfgVars, envVars, callVars, treeVars, pyVars, monVars, tickVars, opVars>>

\* Mutant of the execFile callback: the error of the tool is swallowed and
\* the listing is empty.
ListDirPyRawExitSwallow(err, stdout, stderr) ==
  /\ list.pc = "exec"
  /\ list' = NoList
  /\ LET data == JsonParse(OrElse(stdout, EmptyArrayText))
     IN listResult' =
          IF err = NoErr /\ data.ok /\ data.array
            THEN [kind |-> "resolved", value |-> data.value]
          ELSE [kind |-> "resolved", value |-> Empty]
  /\ UNCHANGED <<cfgVars, envVars, callVars, treeVars, pyVars, monVars, tickVars, opVars>>

\* The execFile callback: the tool ended (or was killed at the timeout).
ListDirPyRawExit(err, stdout, stderr) ==
  /\ list.pc = "exec"
  /\ list' = NoList
  /\ LET data == JsonParse(OrElse(stdout, EmptyArrayText))
     IN listResult' =
          IF err # NoErr
            THEN [kind |-> "rejected", value |-> OrElse(stderr, err)]
          ELSE IF data.ok /\ data.array
            THEN [kind |-> "resolved", value |-> data.value]
          ELSE [kind |-> "resolved", value |-> Empty]
  /\ UNCHANGED <<cfgVars, envVars, callVars, treeVars, pyVars, monVars, tickVars, opVars>>

\* Mutant of execFile's timeout: no timeout is set, nothing ends a tool that
\* hangs.
ListDirPyRawNoTimeout ==
  /\ list.pc = "exec"
  /\ FALSE
  /\ UNCHANGED vars

\* execFile's timeout: the tool is still running 10 s after its start, it is
\* killed and the callback runs with the error and what the tool wrote so far.
ListDirPyRawTimeout ==
  \E stdout \in ToolStdouts, stderr \in ToolStderrs :
    ListDirPyRawExit(ExecError, stdout, stderr)

\* ------------------------------------------------------------ SyncTree
\* The text of .mpy-workbench/config.json is a sequence of JSON tokens, as
\* the output of the listing tool is; NoFile when the file does not exist.
JsonTrue == <<"true">>
JsonFalse == <<"false">>
AutoSyncKey == "autoSyncOnSave"
ConfigFiles ==
  { NoFile, <<"x">>, <<"null">>, <<"{", "}">>,
    <<"{", AutoSyncKey, ":", "true", "}">>,
    <<"{", AutoSyncKey, ":", "false", "}">>,
    <<"{", AutoSyncKey, ":", "1", "}">> }
AutoSyncSettings == {Undefined, JsonTrue, JsonFalse}

LabelToggle == <<"Toggle AutoSync">>
LabelOn == <<"AutoSync: ON (click to disable)">>
LabelOff == <<"AutoSync: OFF (click to enable)">>

\* JSON.parse(s) for a config document: null, or an object with at most the
\* autoSyncOnSave property.  ok: no SyntaxError; autoSyncOnSave: the value
\* of the property, Undefined when there is none.
JsonParseConfig(s) ==
  IF s = <<"null">>
    THEN [ok |-> TRUE, null |-> TRUE, autoSyncOnSave |-> Undefined]
  ELSE IF s = <<"{", "}">>
    THEN [ok |-> TRUE, null |-> FALSE, autoSyncOnSave |-> Undefined]
  ELSE IF Len(s) = 5 /\ s[1] = "{" /\ s[2] = AutoSyncKey /\ s[3] = ":"
          /\ s[4] \in {"true", "false", "1"} /\ s[5] = "}"
    THEN [ok |-> TRUE, null |-> FALSE, autoSyncOnSave |-> <<s[4]>>]
  ELSE [ok |-> FALSE, null |-> FALSE, autoSyncOnSave |-> Undefined]

\* getActionNodes(), the label of the toggle: the default when there is no
\* workspace folder or the try block throws (JSON.parse, or the property
\* read on null).
AutoSyncLabel ==
  IF ~workspaceFolder THEN LabelToggle
  ELSE LET cfg == IF configFile = NoFile
                    THEN [ok |-> TRUE, null |-> FALSE, autoSyncOnSave |-> Undefined]
                    ELSE JsonParseConfig(configFile)
           enabled == IF cfg.autoSyncOnSave \in {JsonTrue, JsonFalse}
                        THEN cfg.autoSyncOnSave
                        ELSE ConfigGet(autoSyncOnSave, JsonFalse)
       IN IF ~cfg.ok \/ cfg.null THEN LabelToggle
          ELSE IF enabled = JsonTrue THEN LabelOn
          ELSE LabelOff

\* The labels of the last two calls, l being the latest.
Shown(l) == IF labels = << >> THEN <<l>> ELSE <<labels[Len(labels)], l>>

\* Mutant of getActionNodes(): the label is computed once and kept.
GetActionNodesCached ==
  /\ labels' = Shown(IF labels = << >> THEN AutoSyncLabel ELSE labels[Len(labels)])
  /\ UNCHANGED <<workspaceFolder, configFile, autoSyncOnSave>>
  /\ UNCHANGED <<cfgVars, envVars, pyVars, callVars, monVars, tickVars, opVars, listVars>>

\* getActionNodes()
GetActionNodes ==
  /\ labels' = Shown(AutoSyncLabel)
  /\ UNCHANGED <<workspaceFolder, configFile, autoSyncOnSave>>
  /\ UNCHANGED <<cfgVars, envVars, pyVars, callVars, monVars, tickVars, opVars, listVars>>

\* .mpy-workbench/config.json is written, or removed.
WriteConfigFile(c) ==
  /\ c # configFile
  /\ configFile' = c
  /\ UNCHANGED <<workspaceFolder, autoSyncOnSave, labels>>
  /\ UNCHANGED <<cfgVars, envVars, pyVars, callVars, monVars, tickVars, opVars, listVars>>

\* The user changes the setting microPythonWorkBench.autoSyncOnSave.
SetAutoSyncOnSave(v) ==
  /\ v # autoSyncOnSave
  /\ autoSyncOnSave' = v
  /\ UNCHANGED <<workspaceFolder, configFile, labels>>
  /\ UNCHANGED <<cfgVars, envVars, pyVars, callVars, monVars, tickVars, opVars, listVars>>

\* A workspace folder is opened, or the last one closed.
SetWorkspaceFolder(b) ==
  /\ b # workspaceFolder
  /\ workspaceFolder' = b
  /\ UNCHANGED <<configFile, autoSyncOnSave, labels>>
  /\ UNCHANGED <<cfgVars, envVars, pyVars, callVars, monVars, tickVars, opVars, listVars>>

\* ------------------------------------------------------ specification
MonitorNext ==
  \/ Start
  \/ Stop
  \/ SuspendDuringBegin
  \/ \E o \in BagToSet(ops), r \in Outcomes : SuspendDuringEnd(o, r)
  \/ \E id \in pending : TimerFire(id)
  \/ \E t \in BagToSet(ticks) : TickSpawn(t)
  \/ \E t \in BagToSet(ticks) : TickClose(t)
  \/ \E t \in BagToSet(ticks) : TickKill(t)

\* The monitor alone.  No guard of the monitor reads the configuration, the
\* clock or the interpreter cache, so these keep the values they start with.
Next == MonitorNext

Spec == Init /\ [][Next]_vars

\* The event loop runs every callback that is due: an armed timer fires, the
\* interpreter lookup settles (each of its subprocesses has a timeout), and
\* the miniterm process closes (it is killed when the read window ends).
FairSpec ==
  /\ Spec
  /\ WF_vars(\E id \in pending : TimerFire(id))
  /\ WF_vars(\E t \in BagToSet(ticks) : TickSpawn(t))
  /\ WF_vars(\E t \in BagToSet(ticks) : TickClose(t))

\* One poll cycle at a time, among start(), stop() and suspendDuring(): the
\* timer starts a cycle only when none is in flight.  Cycles share no local,
\* and cycles in flight with equal locals cannot be told apart, so the end
\* of a cycle is followed with that cycle alone.
PollNext ==
  \/ Start
  \/ Stop
  \/ SuspendDuringBegin
  \/ \E o \in BagToSet(ops), r \in Outcomes : SuspendDuringEnd(o, r)
  \/ \E id \in pending : TimerFire(id) /\ (ticks = EmptyBag \/ ticks' = ticks)
  \/ \E t \in BagToSet(ticks) : TickSpawn(t)
  \/ \E t \in BagToSet(ticks) : TickClose(t)
  \/ \E t \in BagToSet(ticks) : TickKill(t)

\* The event loop runs the callbacks of a cycle that are due: the interpreter
\* lookup settles and the kill timer expires.  miniterm need not end by
\* itself, and no timer of the monitor is assumed to fire.
FairPollSpec ==
  /\ Init
  /\ [][PollNext]_vars
  /\ WF_vars(\E t \in BagToSet(ticks) : TickSpawn(t))
  /\ WF_vars(\E t \in BagToSet(ticks) : TickKill(t))

\* The interpreter lookup called directly, and its environment: the
\* settings and the Python extension's selection change, interpreters come
\* and go, the cache is cleared from outside, time passes.  The lookup
\* reads no other setting: connect stays unset.
PyNext ==
  \/ GetPythonPath
  \/ GetPythonPathFromApi
  \/ GetPythonPathFromRest
  \/ ClearPythonCache
  \/ \E v \in MpyPaths : SetPythonPath(v)
  \/ \E v \in DefaultPaths : SetDefaultInterpreterPath(v)
  \/ \E v \in ApiPaths : SelectInterpreter(v)
  \/ \E ps \in SUBSET Installed : SetInstalled(ps)
  \/ Advance

PySpec == UnsetInit /\ [][PyNext]_vars

\* The lookups that can warn about mpremote, getPythonPath() called directly
\* and checkMpremoteAvailability(), one of each in flight at most, and their
\* environment: the Python extension's selection and the default interpreter
\* setting change, interpreters and the mpremote command come and go, the
\* cache is cleared, time passes in short steps and in one long pause.
NotifyNext ==
  \/ GetPythonPath
  \/ GetPythonPathFromApi
  \/ GetPythonPathFromRest
  \/ CheckMpremoteAvailability
  \/ CheckMpremoteAvailabilityFromApi
  \/ CheckMpremoteAvailabilityFromRest
  \/ CheckMpremoteAvailabilityValidate
  \/ ClearPythonCache
  \/ \E v \in DefaultPaths : SetDefaultInterpreterPath(v)
  \/ \E v \in ApiPaths : SelectInterpreter(v)
  \/ \E ps \in NotifyInstalled : SetInstalled(ps)
  \/ \E ps \in SUBSET Missing : SetMissing(ps)
  \/ Advance
  \/ Elapse

NotifySpec == UnsetInit /\ [][NotifyNext]_vars

\* The sync view and what it reads: the config file and the settings.
TreeNext ==
  \/ GetActionNodes
  \/ \E c \in ConfigFiles : WriteConfigFile(c)
  \/ \E v \in AutoSyncSettings : SetAutoSyncOnSave(v)
  \/ \E b \in BOOLEAN : SetWorkspaceFolder(b)

TreeSpec == UnsetInit /\ [][TreeNext]_vars

\* The listing, the monitor's polls and their environment: the configuration
\* changes, time passes.  At most MaxListTicks polls are in flight.
ListingNext ==
  \/ Start
  \/ Stop
  \/ \E id \in pending : TimerFire(id) /\ BagCardinality(ticks') <= MaxListTicks
  \/ \E t \in BagToSet(ticks) : TickSpawn(t)
  \/ \E t \in BagToSet(ticks) : TickClose(t)
  \/ ListDirPyRawCall
  \/ ListDirPyRawExec
  \/ \E err \in ToolErrs, stdout \in ToolStdouts, stderr \in ToolStderrs :
       ListDirPyRawExit(err, stdout, stderr)
  \/ ListDirPyRawTimeout
  \/ \E c \in ConnectValues : SetConnect(c)
  \/ Advance

ListSpec == Init /\ [][ListingNext]_vars

\* The event loop runs the callbacks of a listing call that are due: the
\* interpreter lookup settles (each of its subprocesses has a timeout) and
\* the timeout of execFile expires.  The tool need not end by itself.
\* The monitor shares no variable with a listing call but the interpreter
\* cache, which the call's own lookups fill as well; it stays stopped here.
ListCallNext ==
  \/ ListDirPyRawCall
  \/ ListDirPyRawExec
  \/ \E err \in ToolErrs, stdout \in ToolStdouts, stderr \in ToolStderrs :
       ListDirPyRawExit(err, stdout, stderr)
  \/ ListDirPyRawTimeout
  \/ \E c \in ConnectValues : SetConnect(c)
  \/ Advance

FairListSpec ==
  /\ Init
  /\ [][ListCallNext]_vars
  /\ WF_vars(ListDirPyRawExec)
  /\ WF_vars(ListDirPyRawTimeout)

\* ------------------------------------------------------------ properties
\* A poll subprocess (miniterm) of the monitor is running.
Polling == \E t \in BagToSet(ticks) : t.pc = "proc"

\* The step in which tick() spawns its poll subprocess.
SpawnStep == \E t \in BagToSet(ticks) :
  /\ t.pc \in {"cached", "discover"}
  /\ \E p \in DiscoveryResults \cup {t.pythonPath} :
       ticks' = Put(Take(ticks, t), [t EXCEPT !.pc = "proc", !.pythonPath = p])

\* The step in which a suspendDuring() calls its body fn.
BeginStep == BagCardinality(ops') > BagCardinality(ops)

\* The step in which the suspendDuring() invocation o returns.
EndStep(o) == BagIn(o, ops) /\ ops' = Take(ops, o)

\* The step in which an armed timer fires.
FireStep == pending' # pending /\ pending' \subseteq pending /\ timer' = timer

\* C1: the monitor never spawns a poll subprocess while the body of some
\* suspendDuring() is executing.
C1_NoSpawnWhileSuspended == [][SpawnStep => ops = EmptyBag]_vars

\* C2: the bodies of two suspendDuring() calls never execute at the same
\* instant.
C2_OneHolder == BagCardinality(ops) <= 1

\* C3: when the body of a suspendDuring() starts executing, no poll cycle
\* that began earlier is still in flight.
C3_NoPollInFlightAtBegin == [][BeginStep => ticks = EmptyBag]_vars

\* C4: if from some point on the monitor is running and no suspendDuring()
\* body is executing, poll cycles keep running.
C4_ResumeLiveness == <>[](running /\ ops = EmptyBag) => []<>Polling

\* C5: a suspendDuring() that ends when the monitor was not running before
\* it, or is not running any more, leaves the timers as they are; and while
\* the monitor is not running no timer is armed and no poll cycle begins.
C5_IdempotentResume ==
  [][ /\ \A o \in BagToSet(ops) :
           (EndStep(o) /\ (~o.wasRunning \/ ~running))
             => (pending' = pending /\ timer' = timer)
      /\ ~running' => pending' = {}
      /\ ~running => BagCardinality(ticks') <= BagCardinality(ticks) ]_vars

\* C5 witness: a suspendDuring() that began while the monitor was running has
\* returned after stop(), and no timer is armed.
C5_Witness ==
  /\ lastEnd.result # "none"
  /\ lastEnd.wasRunning
  /\ ~running
  /\ ops = EmptyBag
  /\ pending = {}

\* C6: the listing tool never runs at the same instant as a poll subprocess
\* of the monitor on the same serial port.
C6_ListingExclusive ==
  ~(list.pc = "exec" /\ \E t \in BagToSet(ticks) : t.pc = "proc" /\ t.device = list.device)

\* C7 as stated: when the body rejects, the return clears busy, arms a poll
\* timer if the monitor was running before, and hands the rejection on.
C7_ReleaseOnFailure_Stated ==
  [][ \A o \in BagToSet(ops) :
        (EndStep(o) /\ lastEnd'.fn = "rejected")
          => /\ ~busy'
             /\ o.wasRunning => pending' # {}
             /\ lastEnd'.result = "rejected" ]_vars

\* C7 amended: when the body rejects, the return clears busy, arms a poll
\* timer if the monitor was running before and is running still, and hands
\* the rejection on.
C7_ReleaseOnFailure ==
  [][ \A o \in BagToSet(ops) :
        (EndStep(o) /\ lastEnd'.fn = "rejected")
          => /\ ~busy'
             /\ (o.wasRunning /\ running) => pending' # {}
             /\ lastEnd'.result = "rejected" ]_vars

\* C7 witness: a suspendDuring() whose body rejected has returned the
\* rejection, busy is clear and the next poll is armed.
C7_Witness ==
  /\ lastEnd.fn = "rejected"
  /\ lastEnd.result = "rejected"
  /\ lastEnd.wasRunning
  /\ running
  /\ ~busy
  /\ pending # {}

C9_OnePollCycle == BagCardinality(ticks) <= 1

\* The step in which listDirPyRaw() is called.
ListCallStep == list.pc = "idle" /\ <<list, listResult>>' # <<list, listResult>>

\* microPythonWorkBench.connect names no fixed port.
NoFixedPort == connect \in {Undefined, Empty, Auto}

\* C10: called while no fixed port is configured, listDirPyRaw() rejects at
\* once and starts nothing: no interpreter discovery, no listing tool.
C10_LinkUnavailable ==
  [][ (ListCallStep /\ NoFixedPort)
        => /\ listResult' = [kind |-> "rejected", value |-> NoPortError]
           /\ list' = NoList
           /\ pyVars' = pyVars ]_vars

\* C10 witness: a call has been rejected for want of a port and nothing of it
\* is in flight.
C10_Witness ==
  /\ NoFixedPort
  /\ listResult = [kind |-> "rejected", value |-> NoPortError]
  /\ list = NoList

\* C11: when the listing tool ends without error the call resolves: with the
\* elements of the array when the output is a JSON array, with the empty
\* listing when the output is empty, is not JSON, or is JSON but no array.
C11_GracefulListing ==
  [][ \A stdout \in ToolStdouts, stderr \in ToolStderrs :
        ListDirPyRawExit(NoErr, stdout, stderr)
          => /\ listResult'.kind = "resolved"
             /\ listResult'.value =
                  IF stdout = <<"[", "e", ",", "1", "]">> THEN <<"e", "1">> ELSE Empty ]_vars

\* C11 witness: a listing call has resolved with the array the tool printed.
C11_Witness ==
  /\ list = NoList
  /\ listResult = [kind |-> "resolved", value |-> <<"e", "1">>]

\* C12 as stated: when the listing tool ends with an error the call rejects
\* and the reason is the text of its standard error.
C12_ToolFailure_Stated ==
  [][ \A err \in ToolErrs \ {NoErr}, stdout \in ToolStdouts, stderr \in ToolStderrs :
        ListDirPyRawExit(err, stdout, stderr)
          => listResult' = [kind |-> "rejected", value |-> stderr] ]_vars

\* C12 amended: when the listing tool ends with an error the call rejects;
\* the reason is the text of its standard error when there is some, and the
\* message of the error otherwise.
C12_ToolFailure ==
  [][ \A err \in ToolErrs \ {NoErr}, stdout \in ToolStdouts, stderr \in ToolStderrs :
        ListDirPyRawExit(err, stdout, stderr)
          => /\ listResult'.kind = "rejected"
             /\ stderr # Empty => listResult'.value = stderr
             /\ stderr = Empty => listResult'.value = err ]_vars

\* C12 witness: a listing call has rejected with the text the tool wrote to
\* its standard error.
C12_Witness ==
  /\ list = NoList
  /\ listResult = [kind |-> "rejected", value |-> StderrText]

\* The step in which a poll cycle starts: tick() passes its first test.
TickStartStep == BagCardinality(ticks') > BagCardinality(ticks)

\* C13: a listing call and a poll cycle take the port from the value that
\* microPythonWorkBench.connect has in the step in which they start, and
\* keep that port until they end, whatever the setting becomes meanwhile.
C13_PortPerOperation ==
  [][ /\ (ListCallStep /\ ~NoFixedPort) => list'.device = DeviceOf(connect)
      /\ (list.pc # "idle" /\ list'.pc # "idle") => list'.device = list.device
      /\ \A n \in BagToSet(ticks') :
           \/ \E t \in BagToSet(ticks) : t.device = n.device
           \/ /\ TickStartStep
              /\ n.device = DeviceOf(IF connect = Undefined THEN Auto ELSE connect) ]_vars

\* C13 witness: a poll cycle that started on one port is in flight while a
\* listing call that started after the setting changed uses the other.
C13_Witness ==
  /\ list.pc = "exec"
  /\ list.device = PortB
  /\ connect = SerialSlash \o PortB
  /\ \E t \in BagToSet(ticks) : t.device = PortA

\* C14: a listing call that got past the port test ends: it resolves or it
\* rejects.
C14_ListingEnds ==
  (list.pc # "idle") ~> (list.pc = "idle" /\ listResult.kind \in {"resolved", "rejected"})

\* C14 witness: a listing call has ended at the timeout, the tool having
\* written nothing.
C14_Witness ==
  /\ list = NoList
  /\ listResult = [kind |-> "rejected", value |-> ExecError]

\* The step in which tick() resumes from the close of its miniterm and ends.
TickEndStep == \E t \in BagToSet(ticks) : t.pc = "proc" /\ ticks' = Take(ticks, t)

C19_BusyWhileBody == ops # EmptyBag => busy

\* C20: the step in which stop() stops the monitor leaves no timer armed;
\* and from a state in which the monitor is not running, every step that is
\* not start() (the end of a poll cycle in flight and the return of a
\* suspendDuring() among them) arms no timer and starts no poll cycle.
C20_StoppedStaysStopped ==
  [][ /\ (running /\ ~running') => (pending' = {} /\ timer' = NoTimer)
      /\ (~running /\ ~running') => (pending' = {} /\ ~TickStartStep)
      /\ (~running /\ TickEndStep) => (pending' = {} /\ timer' = timer)
      /\ \A o \in BagToSet(ops) :
           (~running /\ EndStep(o)) => (pending' = {} /\ timer' = timer) ]_vars

\* C20 witness: the monitor was stopped during a poll and during a
\* suspendDuring() that began while it was running; no timer is armed.
C20_Witness ==
  /\ ~running
  /\ Polling
  /\ \E o \in BagToSet(ops) : o.wasRunning
  /\ pending = {}

\* The step in which a getPythonPath() that ran the discovery returns.
DiscoveredStep == py.pc # "idle" /\ py'.pc = "idle"

\* microPythonWorkBench.pythonPath is set to a non-blank path that validates.
OverrideSet ==
  /\ Truthy(mpyPath)
  /\ Truthy(Trim(mpyPath))
  /\ Trim(mpyPath) \in installed

\* C16: a getPythonPath() that runs the discovery while
\* microPythonWorkBench.pythonPath is set to a non-blank path that validates
\* (and was when the lookup read the settings) returns that path, trimmed.
C16_OverrideWins ==
  [][ (DiscoveredStep /\ OverrideSet /\ (py.pc = "cfg" => py.read = Configuration))
        => pyResult'.path = Trim(mpyPath) ]_vars

\* C17: a getPythonPath() that returns the cached interpreter returns one
\* that was found under the interpreter settings as they are now, or one
\* that a discovery would find now as well.
C17_CacheFollowsSettings ==
  [][ (GetPythonPath /\ CacheHit)
        => \/ cachedUnder = Configuration
           \/ cachedInterpreter = Discover(apiPath, ConfiguredPython, installed) ]_vars

\* The label for the value v of autoSyncOnSave.
LabelFor(v) == IF v = JsonTrue THEN LabelOn ELSE LabelOff

\* The label for what the config file stores at the moment: its
\* autoSyncOnSave when the file stores a boolean there, the global setting
\* (false when unset) otherwise.
StoredLabel ==
  IF configFile = <<"{", AutoSyncKey, ":", "true", "}">> THEN LabelOn
  ELSE IF configFile = <<"{", AutoSyncKey, ":", "false", "}">> THEN LabelOff
  ELSE LabelFor(autoSyncOnSave)

\* The config file exists and holds no JSON value, or the JSON value null.
Unreadable == configFile \in {<<"x">>, <<"null">>}

\* C18 as stated: with a workspace folder open, every getActionNodes()
\* reports what the config file stores at the moment of the call.
C18_FlagReadOnUse_Stated ==
  [][ (GetActionNodes /\ workspaceFolder) => labels'[Len(labels')] = StoredLabel ]_vars

\* C18 amended: with a workspace folder open, every getActionNodes() reports
\* what the config file stores at the moment of the call, and the default
\* label when the file cannot be read as a JSON value other than null.
C18_FlagReadOnUse ==
  [][ (GetActionNodes /\ workspaceFolder)
        => labels'[Len(labels')] = IF Unreadable THEN LabelToggle ELSE StoredLabel ]_vars

\* C18 witness: two calls in a row reported OFF, then ON: the file, which
\* now stores true, was changed between them, and the global setting is off.
C18_Witness ==
  /\ labels = <<LabelOff, LabelOn>>
  /\ configFile = <<"{", AutoSyncKey, ":", "true", "}">>
  /\ autoSyncOnSave = JsonFalse
  /\ workspaceFolder

\* The fallbacks that validate, by their place in the list.
ValidFallbacks == {i \in DOMAIN FallbackPythonPaths : FallbackPythonPaths[i] \in installed}

C22_CacheValidity ==
  [][ /\ GetPythonPath
           => IF cachedUnder # NoSettings /\ now - lastCacheTime < 30000
                THEN /\ pyResult' = [path |-> cachedInterpreter, cached |-> TRUE]
                     /\ py' = py
                     /\ UNCHANGED pyVars
                ELSE /\ py'.pc = "api"
                     /\ pyResult' = NoReturn
      /\ (cachedInterpreter' # cachedInterpreter \/ lastCacheTime' # lastCacheTime)
           => \/ Truthy(cachedInterpreter') /\ lastCacheTime' = now /\ cachedUnder' # NoSettings
              \/ cachedInterpreter' = NoPath /\ cachedUnder' = NoSettings ]_vars

\* C22 witness: a call answered from a cache filled earlier and still younger
\* than 30 seconds.
C22_Witness ==
  /\ pyResult = [path |-> cachedInterpreter, cached |-> TRUE]
  /\ now - lastCacheTime > 0
  /\ now - lastCacheTime < CACHE_DURATION
  /\ py = NoCall

\* C23: whatever getPythonPath() and checkMpremoteAvailability() calls run,
\* alone or overlapping, and however many candidates of one discovery report
\* mpremote as missing, two 'mpremote missing' warnings that follow each
\* other are at least 5 minutes (300000 ms) apart.
C23_WarningsApart ==
  Len(warnings) = 2 => warnings[2] - warnings[1] >= 300000

\* C23 witness: a second warning has just been shown while both the selected
\* interpreter and the first fallback report mpremote as missing.
C23_Witness ==
  /\ Len(warnings) = 2
  /\ warnings[2] = now
  /\ lastMpremoteNotification = now
  /\ apiPath = VenvPy
  /\ missing = {VenvPy, Python3}
====
